---- MODULE Spec2Model ----
(***************************************************************************)
(* Model of src/8/app.py: a Streamlit spaced-repetition quiz.  Every       *)
(* script run (one cycle of the presentation loop) reloads the four lists  *)
(* from their JSON files, merges the source input into "unknown", selects  *)
(* or keeps the held card, and handles the button that triggered the run.  *)
(* Time is in seconds (timestamp()); a script run reads the clock once, so *)
(* every datetime.now() of one run gives the same value.                   *)
(***************************************************************************)
EXTENDS Integers, Sequences, FiniteSets, TLC

\* ------------------------------------------------------------------ bounds
\* number of difficulty judgments in a behaviour
MaxJudgments == 2

\* number of cards in a list handed to save_list on its own
MaxCards == 2

\* ------------------------------------------------------------------ config
LISTS == <<"hard", "difficult", "easy", "unknown">>

ListNames == {LISTS[i] : i \in DOMAIN LISTS}

REPEAT_INTERVALS == [difficult |-> 5, hard |-> 1, easy |-> 120, unknown |-> 1]

\* the interval taken as seconds: timedelta(seconds=m)
timedelta_seconds(m) == m

\* timedelta(minutes=m) expressed in the seconds of timestamp(), the offset
\* of local time from UTC being the same at both ends of the interval
timedelta_minutes(m) == 60 * m

\* the clock readings at which the script runs: the start, and when a card
\* judged hard and a card judged easy at the start become due
Instants == {0, timedelta_minutes(REPEAT_INTERVALS["hard"]),
             timedelta_minutes(REPEAT_INTERVALS["easy"])}

\* ------------------------------------------------------- source input data
Example(s, e) ==
    [sentence |-> s, romaji |-> "r_" \o s, english |-> e, romaji_meaning |-> "m_" \o s]

WordGroup(w, exs) == [word |-> w, examples |-> exs]

\* contents the source file 8/words.json takes in the model
InputA == << WordGroup("w1", << Example("s1", "a"), Example("s2", "a") >>) >>

InputB == << WordGroup("w1", << Example("s1", "a"), Example("s3", "a") >>),
             WordGroup("w2", << Example("s3", "b"), Example("s2", "b") >>) >>

\* <<>> is "no file"; <<d>> is a file whose JSON content is d
InputFiles == { <<>>, <<InputA>>, <<InputB>> }

\* ------------------------------------------------------------ JSON storage
\* keys of a card in the order the dict was built (example.copy(), then
\* root_word, then next_review)
CardKeys == <<"sentence", "romaji", "english", "romaji_meaning", "root_word", "next_review">>

\* json.dump of a list of dicts: an array of objects, an object being the
\* sequence of its key/value pairs
json_dump(data) ==
    [i \in 1..Len(data) |->
        LET present == SelectSeq(CardKeys, LAMBDA k : k \in DOMAIN data[i])
        IN  [j \in 1..Len(present) |-> <<present[j], data[i][present[j]]>>]]

\* json.load: every object becomes a dict again
json_load(text) ==
    [i \in 1..Len(text) |->
        [k \in {text[i][j][1] : j \in 1..Len(text[i])} |->
            text[i][CHOOSE j \in 1..Len(text[i]) : text[i][j][1] = k][2]]]

VARIABLES
    files,        \* data/<name>.json per list name: <<>> no file, <<text>> its content
    input_file,   \* 8/words.json at the last script run: <<>> no file, <<data>> its content
    now,          \* datetime.now().timestamp() at the last script run
    judgments,    \* how many cards have been judged
    other_judged, \* whether a second browser session has judged a card
    session,      \* st.session_state of the browser session
    screen,       \* what the last script run left on the page
    event,        \* what triggered the last script run
    loaded,       \* `lists` as loaded at line 103 of the last script run
    input_data,   \* `input_data` of the last script run
    merged,       \* `lists` after lines 107-110 of the last script run
    consulted,    \* whether the last script run called get_next_card (line 116)
    card_entry,   \* `card_entry` of the last script run: <<>> is None
    current_list, \* `current_list` of the last script run: <<>> is None
    lists,        \* `lists` at the end of the last script run
    saved,        \* the names save_list was called with in the last script run, in order
    warning       \* whether the last script run showed st.warning

vars == <<files, input_file, now, judgments, other_judged, session, screen, event, loaded,
          input_data, merged, consulted, card_entry, current_list, lists, saved, warning>>

\* ------------------------------------------------------------------- utils
\* a loader that falls back on a built-in dataset when the file is missing
load_input_data_default(f) == IF f # <<>> THEN f[1] ELSE InputA

\* lines 21-26
load_input_data(f) == IF f # <<>> THEN f[1] ELSE <<>>

\* fs is the data directory: fs.content the files, fs.log the names written
load_list(fs, list_name) ==
    IF fs.content[list_name] # <<>> THEN json_load(fs.content[list_name][1]) ELSE <<>>

\* a save that opens the file for appending
save_list_append(fs, list_name, data) ==
    [content |-> [fs.content EXCEPT ![list_name] =
                    IF fs.content[list_name] = <<>> THEN <<json_dump(data)>>
                    ELSE <<fs.content[list_name][1] \o json_dump(data)>>],
     log |-> Append(fs.log, list_name)]

\* lines 35-38
save_list(fs, list_name, data) ==
    [content |-> [fs.content EXCEPT ![list_name] = <<json_dump(data)>>],
     log |-> Append(fs.log, list_name)]

\* the list holding the due card that has been due longest, 0 if none
FirstDueList_stalest(ls, t) ==
    LET due == {k \in DOMAIN LISTS :
                    \E i \in 1..Len(ls[LISTS[k]]) : t >= ls[LISTS[k]][i].next_review}
        oldest(k) == CHOOSE n \in {ls[LISTS[k]][i].next_review : i \in 1..Len(ls[LISTS[k]])} :
                        \A i \in 1..Len(ls[LISTS[k]]) : n <= ls[LISTS[k]][i].next_review
    IN  IF due = {} THEN 0
        ELSE CHOOSE k \in due :
                \A m \in due : oldest(k) < oldest(m) \/ (oldest(k) = oldest(m) /\ k <= m)

\* the first list in LISTS order holding a due card, 0 if none
FirstDueList(ls, t) ==
    LET due == {k \in DOMAIN LISTS :
                    \E i \in 1..Len(ls[LISTS[k]]) : t >= ls[LISTS[k]][i].next_review}
    IN  IF due = {} THEN 0 ELSE CHOOSE k \in due : \A m \in due : k <= m

\* a scheduler that gives the first card of the first list that holds one
get_next_card_first(ls, t) ==
    LET full == {k \in DOMAIN LISTS : ls[LISTS[k]] # <<>>}
    IN  IF full = {} THEN <<>>
        ELSE LET k == CHOOSE k \in full : \A m \in full : k <= m
             IN  <<ls[LISTS[k]][1], LISTS[k]>>

\* <<entry, list_name>>, or <<>> for (None, None)
get_next_card(ls, t) ==
    LET k == FirstDueList(ls, t)
    IN  IF k = 0 THEN <<>>
        ELSE LET l == ls[LISTS[k]]
                 i == CHOOSE i \in 1..Len(l) :
                        /\ t >= l[i].next_review
                        /\ \A j \in 1..(i - 1) : ~(t >= l[j].next_review)
             IN  <<l[i], LISTS[k]>>

\* a move that puts the card at the head of to_list
move_card_prepend(entry, from_list, to_list, ls, t) ==
    LET removed == [ls EXCEPT ![from_list] =
                        SelectSeq(ls[from_list], LAMBDA w : w.sentence # entry.sentence)]
        stamped == [entry EXCEPT
                        !.next_review = t + timedelta_minutes(REPEAT_INTERVALS[to_list])]
    IN  [removed EXCEPT ![to_list] = <<stamped>> \o removed[to_list]]

\* a move that stamps the card only when it changes list
move_card_keep_in_place(entry, from_list, to_list, ls, t) ==
    LET removed == [ls EXCEPT ![from_list] =
                        SelectSeq(ls[from_list], LAMBDA w : w.sentence # entry.sentence)]
        stamped == IF to_list = from_list THEN entry
                   ELSE [entry EXCEPT
                            !.next_review = t + timedelta_minutes(REPEAT_INTERVALS[to_list])]
    IN  [removed EXCEPT ![to_list] = Append(removed[to_list], stamped)]

\* a move that removes by position, the position of a card that is not found
\* being taken for the last one (index -1)
move_card_by_index(entry, from_list, to_list, ls, t) ==
    LET l == ls[from_list]
        found == \E i \in 1..Len(l) : l[i].sentence = entry.sentence
        removed == [ls EXCEPT ![from_list] =
                        IF found THEN SelectSeq(l, LAMBDA w : w.sentence # entry.sentence)
                        ELSE SubSeq(l, 1, Len(l) - 1)]
        stamped == [entry EXCEPT
                        !.next_review = t + timedelta_minutes(REPEAT_INTERVALS[to_list])]
    IN  [removed EXCEPT ![to_list] = Append(removed[to_list], stamped)]

\* a move that takes every card of the moved card's word out of from_list
move_card_by_word(entry, from_list, to_list, ls, t) ==
    LET removed == [ls EXCEPT ![from_list] =
                        SelectSeq(ls[from_list], LAMBDA w : w.root_word # entry.root_word)]
        stamped == [entry EXCEPT
                        !.next_review = t + timedelta_minutes(REPEAT_INTERVALS[to_list])]
    IN  [removed EXCEPT ![to_list] = Append(removed[to_list], stamped)]

\* lines 53-62: the lists after the move
move_card(entry, from_list, to_list, ls, t) ==
    LET removed == [ls EXCEPT ![from_list] =
                        SelectSeq(ls[from_list], LAMBDA w : w.sentence # entry.sentence)]
        interval == REPEAT_INTERVALS[to_list]
        next_review == t + timedelta_minutes(interval)
        stamped == [entry EXCEPT !.next_review = next_review]
    IN  [removed EXCEPT ![to_list] = Append(removed[to_list], stamped)]

\* a save that skips the lists that are empty
RECURSIVE save_all_nonempty(_, _, _)
save_all_nonempty(fs, ls, i) ==
    IF i > Len(LISTS) THEN fs
    ELSE save_all_nonempty(IF ls[LISTS[i]] = <<>> THEN fs
                           ELSE save_list(fs, LISTS[i], ls[LISTS[i]]), ls, i + 1)

\* lines 65-66: every list is written, in LISTS order
RECURSIVE save_all(_, _, _)
save_all(fs, ls, i) ==
    IF i > Len(LISTS) THEN fs
    ELSE save_all(save_list(fs, LISTS[i], ls[LISTS[i]]), ls, i + 1)

\* a merge that only looks at the "unknown" list for tracked sentences
all_tracked_sentences_unknown_only(ls) ==
    {ls["unknown"][i].sentence : i \in 1..Len(ls["unknown"])}

\* lines 74-78
all_tracked_sentences(ls) ==
    UNION {{ls[l][i].sentence : i \in 1..Len(ls[l])} : l \in ListNames}

\* a card that keeps the example's fields but not the word of its group
new_card_no_root(example, root_word, t) ==
    [k \in DOMAIN example \cup {"root_word", "next_review"} |->
        IF k = "root_word" THEN example.sentence
        ELSE IF k = "next_review" THEN t
        ELSE example[k]]

\* lines 88-90
new_card(example, root_word, t) ==
    [k \in DOMAIN example \cup {"root_word", "next_review"} |->
        IF k = "root_word" THEN root_word
        ELSE IF k = "next_review" THEN t
        ELSE example[k]]

\* a merge without the membership test of line 86
RECURSIVE merge_examples_no_test(_, _, _, _, _)
merge_examples_no_test(examples, j, root_word, acc, t) ==
    IF j > Len(examples) THEN acc
    ELSE merge_examples_no_test(examples, j + 1, root_word,
            [unknown |-> Append(acc.unknown, new_card(examples[j], root_word, t)),
             tracked |-> acc.tracked \cup {examples[j].sentence},
             changes_made |-> TRUE], t)

\* a merge that brings the card of a tracked sentence up to date with the source
RECURSIVE merge_examples_update(_, _, _, _, _)
merge_examples_update(examples, j, root_word, acc, t) ==
    IF j > Len(examples) THEN acc
    ELSE LET example == examples[j]
         IN  IF example.sentence \notin acc.tracked
             THEN merge_examples_update(examples, j + 1, root_word,
                    [unknown |-> Append(acc.unknown, new_card(example, root_word, t)),
                     tracked |-> acc.tracked \cup {example.sentence},
                     changes_made |-> TRUE], t)
             ELSE merge_examples_update(examples, j + 1, root_word,
                    [acc EXCEPT !.unknown =
                        [i \in 1..Len(acc.unknown) |->
                            IF acc.unknown[i].sentence = example.sentence
                            THEN new_card(example, root_word, acc.unknown[i].next_review)
                            ELSE acc.unknown[i]]], t)

\* lines 85-94; acc holds lists["unknown"], all_tracked_sentences, changes_made
RECURSIVE merge_examples(_, _, _, _, _)
merge_examples(examples, j, root_word, acc, t) ==
    IF j > Len(examples) THEN acc
    ELSE LET example == examples[j]
         IN  IF example.sentence \notin acc.tracked
             THEN merge_examples(examples, j + 1, root_word,
                    [unknown |-> Append(acc.unknown, new_card(example, root_word, t)),
                     tracked |-> acc.tracked \cup {example.sentence},
                     changes_made |-> TRUE], t)
             ELSE merge_examples(examples, j + 1, root_word, acc, t)

\* lines 82-85
RECURSIVE merge_groups(_, _, _, _)
merge_groups(data, g, acc, t) ==
    IF g > Len(data) THEN acc
    ELSE merge_groups(data, g + 1,
                      merge_examples(data[g].examples, 1, data[g].word, acc, t), t)

\* a merge step that writes "unknown" whether or not it added a card
add_new_examples_to_lists_always_save(data, ls, fs, t) ==
    LET acc == merge_groups(data, 1,
                    [unknown |-> ls["unknown"],
                     tracked |-> all_tracked_sentences(ls),
                     changes_made |-> FALSE], t)
        out == [ls EXCEPT !["unknown"] = acc.unknown]
    IN  [lists |-> out,
         changes_made |-> acc.changes_made,
         fs |-> save_list(fs, "unknown", out["unknown"])]

\* a merge step that leaves the writing to the next judgment
add_new_examples_to_lists_no_save(data, ls, fs, t) ==
    LET acc == merge_groups(data, 1,
                    [unknown |-> ls["unknown"],
                     tracked |-> all_tracked_sentences(ls),
                     changes_made |-> FALSE], t)
    IN  [lists |-> [ls EXCEPT !["unknown"] = acc.unknown],
         changes_made |-> acc.changes_made,
         fs |-> fs]

\* lines 68-97: the lists after the merge, whether a card was added, and the
\* data directory after the conditional save
add_new_examples_to_lists(data, ls, fs, t) ==
    LET acc == merge_groups(data, 1,
                    [unknown |-> ls["unknown"],
                     tracked |-> all_tracked_sentences(ls),
                     changes_made |-> FALSE], t)
        out == [ls EXCEPT !["unknown"] = acc.unknown]
    IN  [lists |-> out,
         changes_made |-> acc.changes_made,
         fs |-> IF acc.changes_made THEN save_list(fs, "unknown", out["unknown"]) ELSE fs]

\* ---------------------------------------------------------------- main app
EmptySession == [current_card |-> <<>>, current_list |-> <<>>, show |-> <<>>]

\* a reset that leaves the card in the session state
reset_state_keep_card(ss) == [ss EXCEPT !.show = <<FALSE>>]

\* a reset that leaves the reveal flag as it is
reset_state_keep_show(ss) == [ss EXCEPT !.current_card = <<>>, !.current_list = <<>>]

\* lines 151-154
reset_state(ss) == [ss EXCEPT !.show = <<FALSE>>, !.current_card = <<>>, !.current_list = <<>>]

\* a script run that takes the difficulty branch whether or not the answer
\* was asked for
answer_shown_always(ss) == TRUE

\* line 132: the else branch (lines 137-178) is taken
answer_shown(ss) == ss.show[1]

\* a script run that asks the scheduler whatever the session holds
no_card_held_always(ss) == TRUE

\* line 115
no_card_held(ss) == ss.current_card = <<>> \/ ss.current_list = <<>>

\* the buttons the page offers
Clickable(ev) ==
    \/ ev = "run"
    \/ ev = "show" /\ screen = "question"
    \/ ev \in ListNames /\ screen = "answer"

\* line 103
LoadLists(fs) == [l \in ListNames |-> load_list(fs, l)]

\* the data directory holding the files c, nothing written yet in this run
DataDir(c) == [content |-> c, log |-> <<>>]

\* lines 103-110: the lists loaded from the data directory fs, the source file being f,
\* and what the merge step makes of them at time t
LoadAndMerge(fs, f, t) ==
    LET data == load_input_data(f)
        ld == LoadLists(fs)
    IN  IF data # <<>>
        THEN [loaded |-> ld] @@ add_new_examples_to_lists(data, ld, fs, t)
        ELSE [loaded |-> ld, lists |-> ld, changes_made |-> FALSE, fs |-> fs]

\* lines 100-188: one run of the script, triggered by ev ("run": no button;
\* "show": Show Answer; a list name: that difficulty button) at time t, the
\* source file then being f
ScriptRun(ev, f, t) ==
    /\ Clickable(ev)
    /\ t >= now
    /\ ev \in ListNames => judgments < MaxJudgments
    /\ \E m \in {LoadAndMerge(DataDir(files), f, t)} :
       \E next \in {get_next_card(m.lists, t)} :
       LET select == no_card_held(session)
           found == select /\ next # <<>>
           ss1 == IF found
                  THEN [session EXCEPT !.current_card = <<next[1]>>,
                                       !.current_list = <<next[2]>>]
                  ELSE session
           entry == IF select THEN (IF found THEN <<next[1]>> ELSE <<>>)
                    ELSE session.current_card
           clist == IF select THEN (IF found THEN <<next[2]>> ELSE <<>>)
                    ELSE session.current_list
           ss2 == IF entry # <<>> /\ ss1.show = <<>> THEN [ss1 EXCEPT !.show = <<FALSE>>] ELSE ss1
           showing == entry # <<>> /\ answer_shown(ss2)
           click_show == entry # <<>> /\ ~showing /\ ev = "show"
           click_judge == entry # <<>> /\ showing /\ ev \in ListNames
       IN  \E mv \in {IF click_judge THEN move_card(entry[1], clist[1], ev, m.lists, t)
                      ELSE m.lists} :
           \E fs \in {IF click_judge THEN save_all(m.fs, mv, 1) ELSE m.fs} :
           /\ now' = t
           /\ judgments' = IF ev \in ListNames THEN judgments + 1 ELSE judgments
           /\ other_judged' = other_judged
           /\ input_file' = f
           /\ event' = ev
           /\ loaded' = m.loaded
           /\ input_data' = load_input_data(f)
           /\ merged' = m.lists
           /\ warning' = (load_input_data(f) = <<>>)
           /\ card_entry' = entry
           /\ current_list' = clist
           /\ lists' = mv
           /\ files' = fs.content
           /\ saved' = fs.log
           /\ consulted' = select
           /\ session' = IF click_judge THEN reset_state(ss2)
                         ELSE IF click_show THEN [ss2 EXCEPT !.show = <<TRUE>>]
                         ELSE ss2
           /\ screen' = IF click_judge \/ click_show THEN "rerun"
                        ELSE IF entry = <<>> THEN "none"
                        ELSE IF showing THEN "answer"
                        ELSE "question"

\* a page load, a rerun requested by st.rerun() or by the user
Run == \E f \in InputFiles, t \in Instants : ScriptRun("run", f, t)

\* the user clicks "Show Answer"
ShowAnswer == \E f \in InputFiles, t \in Instants : ScriptRun("show", f, t)

\* the user clicks one of the four difficulty buttons
Judge == \E to_list \in ListNames, f \in InputFiles, t \in Instants : ScriptRun(to_list, f, t)

\* a second browser session of the same app, on the same data directory, is
\* given the card this session holds (the first due card), reveals it and
\* judges it: its three script runs, taken at the current time
OtherSession ==
    /\ ~other_judged
    /\ judgments < MaxJudgments
    /\ screen = "answer"
    /\ \E to_list \in ListNames :
       \E m \in {LoadAndMerge(DataDir(files), input_file, now)} :
       \E next \in {get_next_card(m.lists, now)} :
        /\ next # <<>>
        /\ session.current_card # <<>> /\ session.current_list # <<>>
        /\ next[1].sentence = session.current_card[1].sentence
        /\ next[2] = session.current_list[1]
        /\ other_judged' = TRUE
        /\ judgments' = judgments + 1
        /\ files' = save_all(m.fs, move_card(next[1], next[2], to_list, m.lists, now),
                              1).content
        /\ UNCHANGED <<input_file, now, session, screen, event, loaded, input_data,
                       merged, consulted, card_entry, current_list, lists, saved, warning>>

NoLists == [l \in ListNames |-> <<>>]

Init ==
    /\ files = [l \in ListNames |-> <<>>]
    /\ input_file = <<>>
    /\ now = 0
    /\ judgments = 0
    /\ other_judged = FALSE
    /\ session = EmptySession
    /\ screen = "start"
    /\ event = "start"
    /\ loaded = NoLists
    /\ input_data = <<>>
    /\ merged = NoLists
    /\ consulted = FALSE
    /\ card_entry = <<>>
    /\ current_list = <<>>
    /\ lists = NoLists
    /\ saved = <<>>
    /\ warning = FALSE

\* one user, one browser session (spec section 5)
Next ==
    \/ Run
    \/ ShowAnswer
    \/ Judge

Spec == Init /\ [][Next]_vars

\* the same, with a second browser session at work between the script runs
NextTwo ==
    \/ Run
    \/ ShowAnswer
    \/ Judge
    \/ OtherSession

SpecTwo == Init /\ [][NextTwo]_vars

\* ---------------------------------------------- the storage layer on its own
\* cards as the merge step builds them, one of them judged since
StoreCards ==
    { new_card(Example("s1", "a"), "w1", 0),
      new_card(Example("s2", "b"), "w2", 120 + timedelta_minutes(REPEAT_INTERVALS["easy"])) }

\* the sequences of cards handed to save_list
CardSeqs == UNION {[1..n -> StoreCards] : n \in 0..MaxCards}

\* the data directory before the calls: empty, or with an "unknown" list
\* written earlier; `lists` keeps the data last handed to save_list per name
InitStore ==
    /\ \E data \in CardSeqs :
        /\ files = IF data = <<>> THEN [l \in ListNames |-> <<>>]
                   ELSE save_list(DataDir([l \in ListNames |-> <<>>]), "unknown", data).content
        /\ lists = [l \in ListNames |-> IF l = "unknown" THEN data ELSE <<>>]
    /\ input_file = <<>>
    /\ now = 0
    /\ judgments = 0
    /\ other_judged = FALSE
    /\ session = EmptySession
    /\ screen = "start"
    /\ event = "start"
    /\ loaded = [l \in ListNames |-> <<>>]
    /\ input_data = <<>>
    /\ merged = [l \in ListNames |-> <<>>]
    /\ consulted = FALSE
    /\ card_entry = <<>>
    /\ current_list = <<>>
    /\ saved = <<>>
    /\ warning = FALSE

\* save_list(list_name, data), then load_list(list_name); `loaded` keeps what
\* came back
StoreSave(list_name, data) ==
    /\ saved = <<>>
    /\ files' = save_list(DataDir(files), list_name, data).content
    /\ lists' = [lists EXCEPT ![list_name] = data]
    /\ loaded' = [loaded EXCEPT ![list_name] =
                    load_list(save_list(DataDir(files), list_name, data), list_name)]
    /\ saved' = <<list_name>>
    /\ current_list' = <<list_name>>
    /\ event' = "save"
    /\ UNCHANGED <<input_file, now, judgments, other_judged, session, screen, input_data,
                   merged, consulted, card_entry, warning>>

\* load_list(list_name) alone
StoreLoad(list_name) ==
    /\ loaded' = [loaded EXCEPT ![list_name] = load_list(DataDir(files), list_name)]
    /\ current_list' = <<list_name>>
    /\ event' = "load"
    /\ UNCHANGED <<files, lists, saved, input_file, now, judgments, other_judged, session,
                   screen, input_data, merged, consulted, card_entry, warning>>

NextStore ==
    \/ \E list_name \in ListNames, data \in CardSeqs : StoreSave(list_name, data)
    \/ \E list_name \in ListNames : StoreLoad(list_name)

\* one save_list, with load_list before and after it, on that data directory
SpecStore == InitStore /\ [][NextStore]_vars

\* ------------------------------------------------------------ properties
\* the cards of all four lists, in LISTS order
AllCards(ls) == ls["hard"] \o ls["difficult"] \o ls["easy"] \o ls["unknown"]

Sentences(l) == {l[i].sentence : i \in 1..Len(l)}

NoDuplicate(ls) ==
    \A i, j \in 1..Len(AllCards(ls)) :
        i # j => AllCards(ls)[i].sentence # AllCards(ls)[j].sentence

\* the last script run handled a difficulty button
Judged == event \in ListNames /\ card_entry # <<>> /\ current_list # <<>>

\* C1: every sentence is in at most one card of the four lists combined, in
\* `lists` after the merge step, at the end of every script run, and in the
\* stored files
C1_Uniqueness ==
    /\ NoDuplicate(merged)
    /\ NoDuplicate(lists)
    /\ NoDuplicate(LoadLists(DataDir(files)))

\* a card was moved while three cards are tracked, in more than one list
C1_Witness ==
    /\ Judged
    /\ Len(AllCards(lists)) = 3
    /\ Len(lists["unknown"]) < 3
    /\ input_data # <<>>

\* C2: the merge step run again with the same source input, on the lists it
\* left or on the lists as stored, at the same or a later time, adds no card
\* and leaves the four lists as they are
C2_Idempotent ==
    input_data # <<>> =>
        \A t \in Instants :
            t >= now =>
                /\ add_new_examples_to_lists(input_data, merged, DataDir(files), t).lists
                        = merged
                /\ ~add_new_examples_to_lists(input_data, merged, DataDir(files), t)
                        .changes_made
                /\ LoadAndMerge(DataDir(files), input_file, t).lists
                        = LoadLists(DataDir(files))

\* the first run added cards, one of them for a sentence the source repeats
C2_Witness ==
    /\ input_data = InputB
    /\ Len(merged["unknown"]) > Len(loaded["unknown"])
    /\ "s3" \in Sentences(merged["unknown"])

\* the examples of the source with the word of their group, in source order
RECURSIVE Flatten(_, _)
Flatten(data, g) ==
    IF g > Len(data) THEN <<>>
    ELSE [j \in 1..Len(data[g].examples) |->
            [word |-> data[g].word, example |-> data[g].examples[j]]]
         \o Flatten(data, g + 1)

\* the cards the merge step is to append: one per sentence of the source
\* that is in none of the lists ls, at its first occurrence, stamped t
RECURSIVE ExpectedNew(_, _, _, _)
ExpectedNew(flat, i, ls, t) ==
    IF i > Len(flat) THEN <<>>
    ELSE LET e == flat[i].example
             fresh == /\ e.sentence \notin Sentences(AllCards(ls))
                      /\ \A j \in 1..(i - 1) : flat[j].example.sentence # e.sentence
         IN  (IF fresh
              THEN << [sentence |-> e.sentence, romaji |-> e.romaji, english |-> e.english,
                       romaji_meaning |-> e.romaji_meaning, root_word |-> flat[i].word,
                       next_review |-> t] >>
              ELSE <<>>)
             \o ExpectedNew(flat, i + 1, ls, t)

\* C3: the merge step appends to "unknown", in source order, one card per
\* sentence of the source that no list holds yet (first occurrence), with the
\* example's fields, the word of its group and the current time
C3_MergeResult ==
    merged["unknown"] =
        loaded["unknown"] \o ExpectedNew(Flatten(input_data, 1), 1, loaded, now)

\* the source repeats a sentence and names one a list already holds, and a
\* card is added behind the cards of "unknown"
C3_Witness ==
    /\ input_data = InputB
    /\ loaded["unknown"] # <<>>
    /\ \E l \in ListNames \ {"unknown"} : loaded[l] # <<>>
    /\ Len(merged["unknown"]) = Len(loaded["unknown"]) + 1

Due(c, t) == c.next_review <= t

\* position of list name l in the scan order hard, difficult, easy, unknown
Priority(l) ==
    IF l = "hard" THEN 1 ELSE IF l = "difficult" THEN 2 ELSE IF l = "easy" THEN 3 ELSE 4

\* C4: when the script consults the scheduler, it gets the first due card of
\* the first list, in the order hard, difficult, easy, unknown, that holds a
\* due card, with the name of that list, and (None, None) exactly when no
\* card of any list is due
C4_SchedulerSelection ==
    consulted =>
        /\ (card_entry = <<>>) = (\A l \in ListNames : \A i \in 1..Len(merged[l]) :
                                    ~Due(merged[l][i], now))
        /\ (card_entry = <<>>) = (current_list = <<>>)
        /\ card_entry # <<>> =>
              \E i \in 1..Len(merged[current_list[1]]) :
                /\ merged[current_list[1]][i] = card_entry[1]
                /\ Due(card_entry[1], now)
                /\ \A j \in 1..(i - 1) : ~Due(merged[current_list[1]][j], now)
                /\ \A l \in ListNames :
                      Priority(l) < Priority(current_list[1]) =>
                          \A j \in 1..Len(merged[l]) : ~Due(merged[l][j], now)

\* the scheduler returns a card of a list although a list scanned later holds
\* a card that has been due for longer
C4_Witness ==
    /\ consulted
    /\ card_entry # <<>>
    /\ \E l \in ListNames :
          /\ Priority(l) > Priority(current_list[1])
          /\ \E j \in 1..Len(merged[l]) :
                /\ Due(merged[l][j], now)
                /\ merged[l][j].next_review < card_entry[1].next_review

\* s removed from the sequence l of cards, the rest in order
RECURSIVE Without(_, _)
Without(l, s) ==
    IF l = <<>> THEN <<>>
    ELSE IF Head(l).sentence = s THEN Without(Tail(l), s)
    ELSE <<Head(l)>> \o Without(Tail(l), s)

\* the card is in the list it is moved from, and moved to another list
MovedAcross ==
    /\ Judged
    /\ event # current_list[1]
    /\ card_entry[1].sentence \in Sentences(merged[current_list[1]])

\* C5: a move of a card of from_list to another list takes the card out of
\* from_list (one card less, the others in order), puts it at the end of
\* to_list (one card more) and leaves the other two lists as they were
C5_TransitionMembership ==
    MovedAcross =>
        LET from == current_list[1]
            s == card_entry[1].sentence
        IN  /\ Len(lists[from]) = Len(merged[from]) - 1
            /\ lists[from] = Without(merged[from], s)
            /\ Len(lists[event]) = Len(merged[event]) + 1
            /\ SubSeq(lists[event], 1, Len(merged[event])) = merged[event]
            /\ lists[event][Len(lists[event])].sentence = s
            /\ \A k \in DOMAIN card_entry[1] \ {"next_review"} :
                    lists[event][Len(lists[event])][k] = card_entry[1][k]
            /\ \A l \in ListNames \ {from, event} : lists[l] = merged[l]

\* a card leaves a list of three cards, two of which stay behind
C5_Witness ==
    /\ MovedAcross
    /\ Len(merged[current_list[1]]) = 3
    /\ Len(lists[current_list[1]]) = 2
    /\ Len(lists[event]) = 1

\* the intervals in seconds
IntervalSeconds(l) ==
    IF l = "hard" THEN 60 ELSE IF l = "difficult" THEN 300
    ELSE IF l = "easy" THEN 7200 ELSE 60

\* the card the last judgment put at the end of its destination list
MovedCard == lists[event][Len(lists[event])]

C7_AsStated ==
    Judged =>
        IF event # current_list[1]
        THEN MovedCard.next_review = now
        ELSE MovedCard.next_review = card_entry[1].next_review

\* C7, amended: every judgment, also one that leaves the card in its list,
\* sets the card's next_review to the current time plus the interval of the
\* destination list; the merge step, the scheduler scan and a reveal rewrite
\* no card's next_review
C7_Lifecycle ==
    /\ Judged => MovedCard.next_review = now + IntervalSeconds(event)
    /\ \A l \in ListNames : \A i \in 1..Len(loaded[l]) :
            (Judged => loaded[l][i].sentence # card_entry[1].sentence) =>
                \E j \in 1..Len(lists[l]) : lists[l][j] = loaded[l][i]
    /\ (~Judged /\ card_entry # <<>>) =>
            /\ session.current_card = card_entry
            /\ \E i \in 1..Len(lists[current_list[1]]) :
                    lists[current_list[1]][i] = card_entry[1]

\* a judgment leaves the card in its list and changes its next_review
C7_Witness ==
    /\ Judged
    /\ event = current_list[1]
    /\ MovedCard.sentence = card_entry[1].sentence
    /\ MovedCard.next_review # card_entry[1].next_review

\* what the merge step of the last script run wrote: the script writes
\* nothing before it, and a judgment writes the four lists after it
MergeLog == IF Judged THEN SubSeq(saved, 1, Len(saved) - Len(LISTS)) ELSE saved

\* C8: the merge step writes "unknown", once, if it added a card, and writes
\* nothing otherwise
C8_MergeWrite ==
    MergeLog = IF Len(merged["unknown"]) > Len(loaded["unknown"])
               THEN <<"unknown">> ELSE <<>>

\* a run that adds a card to a stored "unknown" list and writes it, the other
\* lists holding cards
C8_Witness ==
    /\ ~Judged
    /\ loaded["unknown"] # <<>>
    /\ \E l \in ListNames \ {"unknown"} : loaded[l] # <<>>
    /\ Len(merged["unknown"]) > Len(loaded["unknown"])
    /\ saved = <<"unknown">>

\* C9: a judgment writes all four lists, and the stored content of every
\* list is then its content in memory
C9_TransitionPersistence ==
    Judged =>
        /\ Len(saved) >= Len(LISTS)
        /\ SubSeq(saved, Len(saved) - Len(LISTS) + 1, Len(saved)) = LISTS
        /\ \A l \in ListNames :
                /\ files[l] # <<>>
                /\ load_list(DataDir(files), l) = lists[l]

\* a judgment with a list it does not touch, empty and without a file before
C9_Witness ==
    /\ Judged
    /\ \E l \in ListNames \ {event, current_list[1]} :
            loaded[l] = <<>> /\ lists[l] = <<>> /\ files[l] # <<>>

\* the judged card is not in the list it is held to be in
Absent ==
    /\ Judged
    /\ card_entry[1].sentence \notin Sentences(merged[current_list[1]])

\* C10: a judgment of a card that is not in from_list goes through as any
\* other (the card is appended to to_list, the lists are written, the session
\* is cleared) and from_list keeps its cards and their order
C10_AbsentMove ==
    Absent =>
        LET from == current_list[1]
        IN  /\ event # from => lists[from] = merged[from]
            /\ event = from =>
                    /\ Len(lists[from]) = Len(merged[from]) + 1
                    /\ SubSeq(lists[from], 1, Len(merged[from])) = merged[from]
            /\ MovedCard.sentence = card_entry[1].sentence
            /\ Len(saved) >= Len(LISTS)
            /\ session.current_card = <<>>

\* the card was judged by the other session first, and from_list holds other
\* cards
C10_Witness ==
    /\ Absent
    /\ other_judged
    /\ event # current_list[1]
    /\ merged[current_list[1]] # <<>>

\* the presentation state of a session state
Phase(ss) ==
    IF ss.current_card = <<>> \/ ss.current_list = <<>> THEN "no card pending"
    ELSE IF ss.show = <<TRUE>> THEN "answer shown"
    ELSE "question shown"

PhaseEdges ==
    { <<"no card pending", "no card pending">>, <<"no card pending", "question shown">>,
      <<"question shown", "question shown">>, <<"question shown", "answer shown">>,
      <<"answer shown", "answer shown">>, <<"answer shown", "no card pending">> }

\* C11: a script run takes the session along no card pending -> question shown
\* -> answer shown -> no card pending, or leaves it where it is; a card is
\* judged, and the lists are changed by move_card, only by a run that finds
\* the session in answer shown; answer shown is entered only from question
\* shown, by the Show Answer button, and the held card is the same from its
\* selection to its judgment
C11_PresentationOrdering ==
    [][ /\ <<Phase(session), Phase(session')>> \in PhaseEdges
        /\ event' \in ListNames => Phase(session) = "answer shown"
        /\ lists' # merged' =>
                /\ Phase(session) = "answer shown"
                /\ event' \in ListNames
                /\ card_entry' = session.current_card
        /\ (Phase(session) # "answer shown" /\ Phase(session') = "answer shown") =>
                /\ event' = "show"
                /\ session'.current_card = session.current_card
        /\ (Phase(session) # "no card pending" /\ Phase(session') # "no card pending") =>
                /\ session'.current_card = session.current_card
                /\ session'.current_list = session.current_list
      ]_vars

\* a second card has gone through question, answer and judgment
C11_Witness ==
    /\ Judged
    /\ judgments = 2
    /\ Phase(session) = "no card pending"
    /\ lists # merged

\* C12: a script run that handles a difficulty button calls move_card with
\* the card and the list the session held and the list of the button, and
\* leaves the session without current_card and current_list and with show
\* false; the script run after it asks the scheduler for its card
C12_JudgmentClears ==
    [][ /\ event' \in ListNames =>
                /\ session.current_card # <<>>
                /\ session.current_list # <<>>
                /\ lists' = move_card(session.current_card[1], session.current_list[1],
                                      event', merged', now')
                /\ session' = [current_card |-> <<>>, current_list |-> <<>>,
                               show |-> <<FALSE>>]
        /\ event \in ListNames =>
                /\ consulted'
                /\ card_entry' = IF get_next_card(merged', now') = <<>> THEN <<>>
                                 ELSE <<get_next_card(merged', now')[1]>>
      ]_vars

\* the script run after a judgment took a card from the scheduler
C12_Witness ==
    /\ judgments = 1
    /\ event = "run"
    /\ consulted
    /\ card_entry # <<>>
    /\ session.current_card = card_entry
    /\ session.show = <<FALSE>>

\* C13: a script run that finds no source file has the empty dataset, shows
\* the warning, adds no card and writes no list in the merge step, and goes
\* on to present a card: the first due card of the lists as loaded when it
\* asks the scheduler, or the card the session holds
C13_MissingSource ==
    (event # "start" /\ input_file = <<>>) =>
        /\ input_data = <<>>
        /\ warning
        /\ merged = loaded
        /\ MergeLog = <<>>
        /\ consulted =>
                card_entry = IF get_next_card(loaded, now) = <<>> THEN <<>>
                             ELSE <<get_next_card(loaded, now)[1]>>
        /\ screen \in {"none", "question", "answer", "rerun"}
        /\ (screen = "none") = (card_entry = <<>>)

\* without a source file, the script takes a due card from the stored lists
C13_Witness ==
    /\ input_file = <<>>
    /\ event = "run"
    /\ warning
    /\ consulted
    /\ card_entry # <<>>
    /\ screen = "question"
    /\ Len(AllCards(loaded)) >= 2

\* C14: what load_list returns for a list name is, card for card and field
\* for field, the data last handed to save_list for that name, and the empty
\* sequence for a name whose file was never written
C14_RoundTrip ==
    /\ \A l \in ListNames :
            /\ load_list(DataDir(files), l) = lists[l]
            /\ files[l] = <<>> => load_list(DataDir(files), l) = <<>>
    /\ event \in {"save", "load"} =>
            LET back == loaded[current_list[1]]
                data == lists[current_list[1]]
            IN  /\ back = data
                /\ Len(back) = Len(data)
                /\ \A i \in 1..Len(data) :
                        /\ DOMAIN back[i] = DOMAIN data[i]
                        /\ \A k \in DOMAIN data[i] : back[i][k] = data[i][k]

\* a list of two different cards was written and read back, and then a
\* name never written was read
C14_Witness ==
    /\ event = "load"
    /\ files[current_list[1]] = <<>>
    /\ loaded[current_list[1]] = <<>>
    /\ saved = <<"unknown">>
    /\ Len(loaded["unknown"]) = 2
    /\ loaded["unknown"][1].sentence # loaded["unknown"][2].sentence
    /\ loaded["unknown"][2].next_review > 0

\* C15: a script run that finds a card and a list in the session state does
\* not ask the scheduler and presents that card and that list, whatever is
\* due and whatever the merge step added; unless it handles a judgment, it
\* leaves them in the session state
C15_HeldCardStable ==
    [][ Phase(session) # "no card pending" =>
            /\ ~consulted'
            /\ card_entry' = session.current_card
            /\ current_list' = session.current_list
            /\ event' \notin ListNames =>
                    /\ session'.current_card = session.current_card
                    /\ session'.current_list = session.current_list
      ]_vars

\* the held card is presented in a run whose merge step added a card and in
\* which the scheduler would give a card of a list of higher priority
C15_Witness ==
    /\ ~consulted
    /\ card_entry # <<>>
    /\ session.current_card = card_entry
    /\ Len(merged["unknown"]) > Len(loaded["unknown"])
    /\ get_next_card(merged, now) # <<>>
    /\ get_next_card(merged, now)[1].sentence # card_entry[1].sentence
    /\ Priority(get_next_card(merged, now)[2]) < Priority(current_list[1])

\* C16: the merge step leaves hard, difficult and easy as loaded, and the
\* loaded "unknown" list is the head of the merged one, every card with the
\* fields it had, also a card whose sentence the source gives other fields for
C16_MergeFrame ==
    /\ \A l \in ListNames \ {"unknown"} : merged[l] = loaded[l]
    /\ Len(merged["unknown"]) >= Len(loaded["unknown"])
    /\ \A i \in 1..Len(loaded["unknown"]) : merged["unknown"][i] = loaded["unknown"][i]

\* the merge step adds a card while "unknown" holds a card that the source
\* now lists under another word and with another translation, and another
\* list holds a card
C16_Witness ==
    /\ input_data = InputB
    /\ Len(merged["unknown"]) > Len(loaded["unknown"])
    /\ \E i \in 1..Len(loaded["unknown"]) :
            /\ loaded["unknown"][i].sentence = "s2"
            /\ loaded["unknown"][i].english = "a"
            /\ loaded["unknown"][i].root_word = "w1"
    /\ \E l \in ListNames \ {"unknown"} : loaded[l] # <<>>

\* the sentences tracked in the four lists ls
Tracked(ls) == Sentences(AllCards(ls))

\* C17: from one script run to the next, the sentences tracked in the stored
\* files and in `lists` only grow: the reload finds every sentence the run
\* before left, the merge step and the judgment keep every sentence; and a
\* judgment leaves the number of cards of the four lists as it was
C17_NoCardLost ==
    [][ /\ Tracked(LoadLists(DataDir(files))) \subseteq Tracked(LoadLists(DataDir(files')))
        /\ Tracked(lists) \subseteq Tracked(loaded')
        /\ Tracked(loaded') \subseteq Tracked(merged')
        /\ Tracked(merged') \subseteq Tracked(lists')
        /\ Tracked(lists') \subseteq Tracked(LoadLists(DataDir(files')))
        /\ event' \in ListNames => Len(AllCards(lists')) = Len(AllCards(merged'))
      ]_vars

\* a second judgment, with three cards tracked in three lists
C17_Witness ==
    /\ Judged
    /\ judgments = 2
    /\ Cardinality(Tracked(lists)) = 3
    /\ Cardinality({l \in ListNames : lists[l] # <<>>}) = 3

\* the sentence s is in the list named l of ls and in no other list of ls
OnlyIn(s, l, ls) ==
    /\ s \in Sentences(ls[l])
    /\ \A k \in ListNames \ {l} : s \notin Sentences(ls[k])

\* C18: a card and a list held in the session state are in the stored lists,
\* the card's sentence in the list of that name and in no other: in the lists
\* the next script run will load, in the lists the last run loaded when it
\* started with the card held, and in the lists a judgment's move_card works
\* on, which so loses a card from from_list
C18_HeldCardStored ==
    /\ Phase(session) # "no card pending" =>
            OnlyIn(session.current_card[1].sentence, session.current_list[1],
                   LoadLists(DataDir(files)))
    /\ (~consulted /\ card_entry # <<>>) =>
            /\ OnlyIn(card_entry[1].sentence, current_list[1], loaded)
            /\ OnlyIn(card_entry[1].sentence, current_list[1], merged)
    /\ Judged =>
            Len(Without(merged[current_list[1]], card_entry[1].sentence))
                = Len(merged[current_list[1]]) - 1

\* a card taken from a list it was moved to earlier is judged, three cards
\* being tracked
C18_Witness ==
    /\ Judged
    /\ current_list[1] # "unknown"
    /\ card_entry[1].next_review > 0
    /\ Len(AllCards(merged)) = 3
    /\ OnlyIn(card_entry[1].sentence, current_list[1], loaded)

C20_RevealOnlyWhileHeld ==
    /\ session.show = <<TRUE>> =>
            /\ session.current_card # <<>>
            /\ session.current_list # <<>>
    /\ (consulted /\ card_entry # <<>>) =>
            /\ session.show = <<FALSE>>
            /\ screen = "question"

\* after two cards were revealed and judged, a third is taken from the
\* scheduler
C20_Witness ==
    /\ judgments = 2
    /\ consulted
    /\ card_entry # <<>>
    /\ session.current_card = card_entry
    /\ screen = "question"
====
